---- MODULE Spec2Model ----
(***************************************************************************)
(* A model of browser_use/browser/python_highlights.py: the colour policy, *)
(* the enhanced box-and-label renderer, the per-element processing, the    *)
(* frame orchestrator and the viewport-metrics helper.                     *)
(*                                                                         *)
(* Strings whose letters matter (tag names) are sequences of one-letter    *)
(* strings, so that str.lower() is computed letter by letter.  Python's    *)
(* None is the value None below.  The drawing surface is the sequence of   *)
(* the draw.line / draw.rectangle / draw.text calls made on it.            *)
(***************************************************************************)
EXTENDS Integers, Sequences, FiniteSets, TLC

VARIABLES
    pc,            \* position of the call under study: "start", "loop", "done"
    tag_name,      \* get_element_color: argument tag_name
    element_type,  \* get_element_color: argument element_type
    color,         \* get_element_color: returned colour
    metrics,       \* get_viewport_info_from_cdp: the layout-metrics reply
    viewport_info, \* get_viewport_info_from_cdp: returned triple
    img_width,     \* scale parameters: the image width they are computed from
    scale_params,  \* scale parameters: <<base_font_size, padding>>
    render_args,   \* draw_enhanced_bounding_box_with_text: bbox, text, image_size
    render_env,    \* what the drawing surface answers: text measurement, failures
    render_out,    \* the calls made on the drawing surface, and whether it raised
    elem_args,     \* process_element_highlight: element, ratio, filter flag, image size
    elem_env,      \* what the drawing surface answers while the element is processed
    elem_out,      \* process_element_highlight: calls made, and whether it raised
    screenshot_b64,\* create_highlighted_screenshot: the input string
    selector_map,  \* create_highlighted_screenshot: the (id, element) pairs, in order
    frame_params,  \* create_highlighted_screenshot: ratio and filter flag
    cursor,        \* position of the for loop in selector_map
    surface,       \* the calls made on the decoded image so far
    processed,     \* ids of the elements process_element_highlight was called for
    frame_error,   \* the whole-frame stage that raised, or "none"
    result         \* create_highlighted_screenshot: returned string

colorVars == <<tag_name, element_type, color>>
viewportVars == <<metrics, viewport_info>>
scaleVars == <<img_width, scale_params>>
renderVars == <<render_args, render_env, render_out>>
elemVars == <<elem_args, elem_env, elem_out>>
frameVars == <<screenshot_b64, selector_map, frame_params, cursor, surface,
               processed, frame_error, result>>
vars == <<pc, colorVars, viewportVars, scaleVars, renderVars, elemVars, frameVars>>

None == "<None>"
Idle == "<idle>"

IdleColor == tag_name = Idle /\ element_type = Idle /\ color = Idle
IdleViewport == metrics = Idle /\ viewport_info = Idle
IdleScale == img_width = Idle /\ scale_params = Idle
IdleRender == render_args = Idle /\ render_env = Idle /\ render_out = Idle
IdleElem == elem_args = Idle /\ elem_env = Idle /\ elem_out = Idle
IdleFrame ==
    /\ screenshot_b64 = Idle /\ selector_map = Idle /\ frame_params = Idle
    /\ cursor = Idle /\ surface = Idle /\ processed = Idle
    /\ frame_error = Idle /\ result = Idle

-----------------------------------------------------------------------------
(* Letters and str.lower()                                                 *)

Lowers == <<"a","b","c","d","e","f","g","h","i","j","k","l","m",
            "n","o","p","q","r","s","t","u","v","w","x","y","z">>
Uppers == <<"A","B","C","D","E","F","G","H","I","J","K","L","M",
            "N","O","P","Q","R","S","T","U","V","W","X","Y","Z">>

LowerChar(c) ==
    IF \E i \in 1..Len(Uppers) : Uppers[i] = c
    THEN Lowers[CHOOSE i \in 1..Len(Uppers) : Uppers[i] = c]
    ELSE c

UpperChar(c) ==
    IF \E i \in 1..Len(Lowers) : Lowers[i] = c
    THEN Uppers[CHOOSE i \in 1..Len(Lowers) : Lowers[i] = c]
    ELSE c

\* str.lower()
lower(s) == [i \in 1..Len(s) |-> LowerChar(s[i])]

\* every way of writing the lower-case word s in upper and lower case letters
CaseVariants(s) ==
    { [i \in 1..Len(s) |-> IF m[i] THEN UpperChar(s[i]) ELSE s[i]] :
        m \in [1..Len(s) -> BOOLEAN] }

-----------------------------------------------------------------------------
(* get_element_color                                                       *)

KeyButton   == <<"b","u","t","t","o","n">>
KeyInput    == <<"i","n","p","u","t">>
KeySelect   == <<"s","e","l","e","c","t">>
KeyA        == <<"a">>
KeyTextarea == <<"t","e","x","t","a","r","e","a">>
KeyDefault  == <<"d","e","f","a","u","l","t">>

\* ELEMENT_COLORS, as the set of its (key, value) pairs
ELEMENT_COLORS ==
    { <<KeyButton,   "#FF6B6B">>,
      <<KeyInput,    "#4ECDC4">>,
      <<KeySelect,   "#45B7D1">>,
      <<KeyA,        "#96CEB4">>,
      <<KeyTextarea, "#FF8C42">>,
      <<KeyDefault,  "#DDA0DD">> }

\* ELEMENT_COLORS[key]
ColorOf(key) == (CHOOSE p \in ELEMENT_COLORS : p[1] = key)[2]

\* ELEMENT_COLORS.get(key, dflt)
ColorGet(key, dflt) ==
    IF \E p \in ELEMENT_COLORS : p[1] = key THEN ColorOf(key) ELSE dflt

\* truthiness of an optional string
Truthy(s) == s # None /\ s # ""

get_element_color(tag, etype) ==
    IF tag = KeyInput /\ Truthy(etype) /\ etype \in {"button", "submit"}
    THEN ColorOf(KeyButton)
    ELSE ColorGet(lower(tag), ColorOf(KeyDefault))

\* tag names and type attributes the colour policy is tried on
KeyDiv == <<"d","i","v">>
TagWords == {KeyButton, KeyInput, KeySelect, KeyA, KeyTextarea, KeyDefault, KeyDiv}
TagNames == UNION { CaseVariants(w) : w \in TagWords }
TypeValues == {None, "", "button", "submit", "text", "checkbox"}

InitColor ==
    /\ pc = "start"
    /\ tag_name \in TagNames
    /\ element_type \in TypeValues
    /\ color = Idle
    /\ IdleViewport /\ IdleScale /\ IdleRender /\ IdleElem /\ IdleFrame

GetElementColor ==
    /\ pc = "start"
    /\ pc' = "done"
    /\ color' = get_element_color(tag_name, element_type)
    /\ UNCHANGED <<tag_name, element_type, viewportVars, scaleVars, renderVars, elemVars, frameVars>>

NextColor == GetElementColor

SpecColor == InitColor /\ [][NextColor]_vars

\* C3: get_element_color is a case-insensitive total lookup: the table colour
\* of the lower-cased tag, the default colour for a tag not in the table, and
\* the button colour whenever the tag is input in any letter case and the type
\* is button or submit.
C3_CaseInsensitiveLookup ==
    pc = "done" =>
        color = IF lower(tag_name) = KeyInput /\ element_type \in {"button", "submit"}
                THEN "#FF6B6B"
                ELSE CASE lower(tag_name) = KeyButton   -> "#FF6B6B"
                       [] lower(tag_name) = KeyInput    -> "#4ECDC4"
                       [] lower(tag_name) = KeySelect   -> "#45B7D1"
                       [] lower(tag_name) = KeyA        -> "#96CEB4"
                       [] lower(tag_name) = KeyTextarea -> "#FF8C42"
                       [] OTHER                         -> "#DDA0DD"

-----------------------------------------------------------------------------
(* get_viewport_info_from_cdp                                              *)

\* A float that is a quotient of two integers, in lowest terms with a
\* positive denominator: <<numerator, denominator>>.
RECURSIVE Gcd(_, _)
Gcd(a, b) == IF b = 0 THEN a ELSE Gcd(b, a % b)

Abs(n) == IF n < 0 THEN -n ELSE n

Quotient(n, d) ==
    LET g == Gcd(Abs(n), Abs(d))
        s == IF d < 0 THEN -1 ELSE 1
    IN  <<(s * n) \div g, (s * d) \div g>>

One == <<1, 1>>

\* int(n / d): truncation towards zero
TruncDiv(n, d) ==
    IF (n >= 0) = (d > 0) THEN Abs(n) \div Abs(d) ELSE -(Abs(n) \div Abs(d))

\* A dictionary entry: absent, a number, or a value arithmetic cannot use
\* (None, a string).  Widths are whole pixels, scroll positions half pixels.
Absent == [tag |-> "absent", v |-> 0]
Bad    == [tag |-> "bad", v |-> 0]
Num(n) == [tag |-> "num", v |-> n]

\* dict.get(key, dflt)
Get(entry, dflt) == IF entry.tag = "absent" THEN dflt ELSE entry

DefaultCssWidth == 1280

\* The fall-back triple of the except branch
ViewportDefault == <<One, 0, 0>>

\* the helper with the two CSS viewports consulted in the other order
get_viewport_info_layout_first(m) ==
    LET css_width    == Get(m.cssLayout, Get(m.cssVisual, Num(DefaultCssWidth)))
        device_width == Get(m.visual, css_width)
        scroll_x     == Get(m.pageX, Num(0))
        scroll_y     == Get(m.pageY, Num(0))
    IN  IF m.raises THEN ViewportDefault
        ELSE IF css_width.tag = "bad" THEN ViewportDefault
        ELSE IF css_width.v > 0 /\ device_width.tag = "bad" THEN ViewportDefault
        ELSE IF scroll_x.tag = "bad" \/ scroll_y.tag = "bad" THEN ViewportDefault
        ELSE <<IF css_width.v > 0 THEN Quotient(device_width.v, css_width.v) ELSE One,
               TruncDiv(scroll_x.v, 2),
               TruncDiv(scroll_y.v, 2)>>

\* metrics: [raises, visual, cssVisual, cssLayout, pageX, pageY]; visual,
\* cssVisual and cssLayout are the clientWidth entries of visualViewport,
\* cssVisualViewport and cssLayoutViewport (a missing viewport dictionary is
\* the empty one, so its entries are absent); pageX and pageY are those of
\* cssVisualViewport, in half pixels.
get_viewport_info_from_cdp(m) ==
    LET css_width    == Get(m.cssVisual, Get(m.cssLayout, Num(DefaultCssWidth)))
        device_width == Get(m.visual, css_width)
        scroll_x     == Get(m.pageX, Num(0))
        scroll_y     == Get(m.pageY, Num(0))
    IN  IF m.raises THEN ViewportDefault
        ELSE IF css_width.tag = "bad" THEN ViewportDefault       \* css_width > 0 raises
        ELSE IF css_width.v > 0 /\ device_width.tag = "bad" THEN ViewportDefault
        ELSE IF scroll_x.tag = "bad" \/ scroll_y.tag = "bad" THEN ViewportDefault
        ELSE <<IF css_width.v > 0 THEN Quotient(device_width.v, css_width.v) ELSE One,
               TruncDiv(scroll_x.v, 2),
               TruncDiv(scroll_y.v, 2)>>

MaxClientWidth == 3
MaxScrollHalves == 3

WidthEntries == {Absent, Bad} \cup {Num(n) : n \in -1..MaxClientWidth}
ScrollEntries == {Absent, Bad} \cup {Num(n) : n \in -MaxScrollHalves..MaxScrollHalves}

InitViewport ==
    /\ pc = "start"
    /\ metrics \in [raises : BOOLEAN, visual : WidthEntries, cssVisual : WidthEntries,
                    cssLayout : WidthEntries, pageX : ScrollEntries, pageY : ScrollEntries]
    /\ viewport_info = Idle
    /\ IdleColor /\ IdleScale /\ IdleRender /\ IdleElem /\ IdleFrame

GetViewportInfo ==
    /\ pc = "start"
    /\ pc' = "done"
    /\ viewport_info' = get_viewport_info_from_cdp(metrics)
    /\ UNCHANGED <<metrics, colorVars, scaleVars, renderVars, elemVars, frameVars>>

NextViewport == GetViewportInfo

SpecViewport == InitViewport /\ [][NextViewport]_vars

\* s is the integer part of h half pixels: int(h / 2)
IsIntOfHalves(s, h) ==
    /\ 2 * Abs(s) <= Abs(h) /\ Abs(h) < 2 * (Abs(s) + 1)
    /\ s * h >= 0

\* C7: get_viewport_info_from_cdp never raises: when the query raises or a
\* scroll value cannot be read as an integer it returns exactly (1.0, 0, 0);
\* when the CSS viewport width is <= 0 the ratio is 1.0; otherwise the ratio is
\* deviceWidth / cssWidth with cssWidth taken from cssVisualViewport, then
\* cssLayoutViewport, then 1280.
C7_ViewportInfo ==
    pc = "done" =>
        LET m == metrics
            css == IF m.cssVisual.tag # "absent" THEN m.cssVisual
                   ELSE IF m.cssLayout.tag # "absent" THEN m.cssLayout
                   ELSE [tag |-> "num", v |-> 1280]
            dev == IF m.visual.tag # "absent" THEN m.visual ELSE css
            px  == IF m.pageX.tag = "absent" THEN 0 ELSE m.pageX.v
            py  == IF m.pageY.tag = "absent" THEN 0 ELSE m.pageY.v
            unreadable == m.pageX.tag = "bad" \/ m.pageY.tag = "bad"
        IN  /\ Len(viewport_info) = 3
            /\ (m.raises \/ unreadable) => viewport_info = <<(<<1, 1>>), 0, 0>>
            /\ (css.tag = "num" /\ css.v <= 0) => viewport_info[1] = <<1, 1>>
            /\ (~m.raises /\ ~unreadable /\ css.tag = "num" /\ css.v > 0 /\ dev.tag = "num")
                   => /\ viewport_info[1][2] > 0
                      /\ viewport_info[1][1] * css.v = dev.v * viewport_info[1][2]
                      /\ IsIntOfHalves(viewport_info[2], px)
                      /\ IsIntOfHalves(viewport_info[3], py)

\* the 1280 default is used, and a scroll of -1.5 is read as -1
C7_Witness ==
    /\ pc = "done"
    /\ metrics.cssVisual.tag = "absent" /\ metrics.cssLayout.tag = "absent"
    /\ metrics.visual = Num(3)
    /\ metrics.pageX = Num(-3)
    /\ viewport_info = <<(<<3, 1280>>), -1, 0>>

-----------------------------------------------------------------------------
(* Scale parameters of the enhanced renderer                               *)

Max(a, b) == IF a >= b THEN a ELSE b
Min(a, b) == IF a <= b THEN a ELSE b

\* int(img_width * 0.03) and int(img_width * 0.005): int() drops the fraction
\* of the double product.  For every width below 200000 the double product
\* truncates to the integer quotient used here.
IntOfThreePercent(w) == (w * 3) \div 100
IntOfHalfPercent(w) == (w * 5) \div 1000

\* round(n / d), ties to the even neighbour
RoundDiv(n, d) ==
    LET q == n \div d
        r == n % d
    IN  IF 2 * r < d THEN q
        ELSE IF 2 * r > d THEN q + 1
        ELSE IF q % 2 = 0 THEN q ELSE q + 1

\* the font size with round() for int()
base_font_size_rounded(w) == Max(16, Min(48, RoundDiv(w * 3, 100)))

\* base_font_size = max(16, min(48, int(img_width * 0.03)))
base_font_size(w) == Max(16, Min(48, IntOfThreePercent(w)))

\* padding = max(4, int(img_width * 0.005))
padding(w) == Max(4, IntOfHalfPercent(w))

MaxImageWidth == 2000

InitScale ==
    /\ pc = "start"
    /\ img_width \in 0..MaxImageWidth
    /\ scale_params = Idle
    /\ IdleColor /\ IdleViewport /\ IdleRender /\ IdleElem /\ IdleFrame

ComputeScale ==
    /\ pc = "start"
    /\ pc' = "done"
    /\ scale_params' = <<base_font_size(img_width), padding(img_width)>>
    /\ UNCHANGED <<img_width, colorVars, viewportVars, renderVars, elemVars, frameVars>>

NextScale == ComputeScale

SpecScale == InitScale /\ [][NextScale]_vars

\* C9 as stated: the font size is clamp(16, 48, round(W * 0.03)) and the
\* padding is max(4, round(W * 0.005)), rounding to the nearest integer.
C9_ScaleParametersRounded ==
    pc = "done" =>
        scale_params = <<Max(16, Min(48, RoundDiv(img_width * 3, 100))),
                         Max(4, RoundDiv(img_width * 5, 1000))>>

\* C9 as amended: the font size is clamp(16, 48, floor(W * 0.03)) and the padding
\* is max(4, floor(W * 0.005)): the fraction is dropped, not rounded.
C9_ScaleParametersTruncated ==
    pc = "done" =>
        LET f == scale_params[1]
            p == scale_params[2]
            w == img_width
        IN  /\ 16 <= f /\ f <= 48
            /\ 3 * w < 1700 => f = 16
            /\ 3 * w >= 4800 => f = 48
            /\ (1700 <= 3 * w /\ 3 * w < 4800) => (100 * f <= 3 * w /\ 3 * w < 100 * (f + 1))
            /\ p >= 4
            /\ 5 * w < 5000 => p = 4
            /\ 5 * w >= 5000 => (1000 * p <= 5 * w /\ 5 * w < 1000 * (p + 1))

\* width 1199: 35.97 gives font size 35, 5.995 gives padding 5
C9_Witness ==
    /\ pc = "done"
    /\ img_width = 1199
    /\ scale_params = <<35, 5>>

-----------------------------------------------------------------------------
(* draw_enhanced_bounding_box_with_text                                    *)

dash_length == 4
gap_length == 8

\* An optional label text: a sequence of characters, or NoneText
NoneText == <<None>>
TextTruthy(t) == t # NoneText /\ t # <<>>

\* One call on the drawing surface.
LineCall(x, y, ex, ey, fill) ==
    [op |-> "line", xy |-> <<x, y, ex, ey>>, fill |-> fill, text |-> NoneText]
RectangleCall(xy, fill) ==
    [op |-> "rectangle", xy |-> xy, fill |-> fill, text |-> NoneText]
TextCall(x, y, text) ==
    [op |-> "text", xy |-> <<x, y>>, fill |-> "white", text |-> text]

\* the while loop of the vertical branch of draw_dashed_line
RECURSIVE VerticalDashes(_, _, _, _)
VerticalDashes(start_x, y, end_y, fill) ==
    IF y < end_y
    THEN <<LineCall(start_x, y, start_x, Min(y + dash_length, end_y), fill)>>
         \o VerticalDashes(start_x, y + dash_length + gap_length, end_y, fill)
    ELSE <<>>

\* the while loop of the horizontal branch of draw_dashed_line
RECURSIVE HorizontalDashes(_, _, _, _)
HorizontalDashes(x, start_y, end_x, fill) ==
    IF x < end_x
    THEN <<LineCall(x, start_y, Min(x + dash_length, end_x), start_y, fill)>>
         \o HorizontalDashes(x + dash_length + gap_length, start_y, end_x, fill)
    ELSE <<>>

draw_dashed_line(start_x, start_y, end_x, end_y, fill) ==
    IF start_x = end_x
    THEN VerticalDashes(start_x, start_y, end_y, fill)
    ELSE HorizontalDashes(start_x, start_y, end_x, fill)

\* the four draw_dashed_line calls, in order: top, right, bottom, left
DashedRectangle(bbox, fill) ==
    LET x1 == bbox[1]  y1 == bbox[2]  x2 == bbox[3]  y2 == bbox[4]
    IN  draw_dashed_line(x1, y1, x2, y1, fill)
        \o draw_dashed_line(x2, y1, x2, y2, fill)
        \o draw_dashed_line(x2, y2, x1, y2, fill)
        \o draw_dashed_line(x1, y2, x1, y1, fill)

\* The label container before the bounds clamping: its corner, its size and
\* the text position.  textbbox is what draw.textbbox((0, 0), text) answered.
LabelPlacement(bbox, image_size, textbbox) ==
    LET x1 == bbox[1]  y1 == bbox[2]  x2 == bbox[3]  y2 == bbox[4]
        text_width  == textbbox[3] - textbbox[1]
        text_height == textbbox[4] - textbbox[2]
        pad == padding(image_size[1])
        element_width  == x2 - x1
        element_height == y2 - y1
        container_width  == text_width + pad * 2
        container_height == text_height + pad * 2
        inside == element_width >= container_width /\ element_height >= container_height
        bg_x1 == IF inside THEN x1 + 2 ELSE x1
        bg_y1 == IF inside THEN y1 + 2 ELSE Max(0, y1 - container_height)
    IN  [inside |-> inside,
         container_width |-> container_width, container_height |-> container_height,
         bg_x1 |-> bg_x1, bg_y1 |-> bg_y1,
         bg_x2 |-> bg_x1 + container_width, bg_y2 |-> bg_y1 + container_height,
         text_x |-> bg_x1 + (container_width - text_width) \div 2,
         text_y |-> bg_y1 + (container_height - text_height) \div 2 - textbbox[2]]

\* one of the four "if ... offset" blocks: move the container by (dx, dy)
Shifted(c, dx, dy) ==
    [c EXCEPT !.bg_x1 = @ + dx, !.bg_x2 = @ + dx, !.text_x = @ + dx,
              !.bg_y1 = @ + dy, !.bg_y2 = @ + dy, !.text_y = @ + dy]

\* "Ensure container stays within image bounds": the four blocks in order
ClampToImage(c, image_size) ==
    LET img_w == image_size[1]
        img_h == image_size[2]
        a == IF c.bg_x1 < 0 THEN Shifted(c, -c.bg_x1, 0) ELSE c
        b == IF a.bg_y1 < 0 THEN Shifted(a, 0, -a.bg_y1) ELSE a
        d == IF b.bg_x2 > img_w THEN Shifted(b, -(b.bg_x2 - img_w), 0) ELSE b
    IN  IF d.bg_y2 > img_h THEN Shifted(d, 0, -(d.bg_y2 - img_h)) ELSE d

\* the container as drawn
LabelContainer(bbox, image_size, textbbox) ==
    ClampToImage(LabelPlacement(bbox, image_size, textbbox), image_size)

\* the calls of the "if text:" block, were none of them to raise
LabelCalls(bbox, fill, text, image_size, env) ==
    IF ~TextTruthy(text) \/ env.measure_raises
    THEN <<>>
    ELSE LET c == LabelContainer(bbox, image_size, env.textbbox)
         IN  <<RectangleCall(<<c.bg_x1, c.bg_y1, c.bg_x2, c.bg_y2>>, fill),
               TextCall(c.text_x, c.text_y, text)>>

\* env.fail_call = k > 0: the k-th call on the surface raises.  A draw.line
\* that raises leaves the function; a rectangle or text call that raises is
\* caught by the except of the "if text:" block.
draw_enhanced_bounding_box_with_text(bbox, fill, text, image_size, env) ==
    LET lines == DashedRectangle(bbox, fill)
        all   == lines \o LabelCalls(bbox, fill, text, image_size, env)
        k     == env.fail_call
    IN  IF k = 0 \/ k > Len(all)
        THEN [calls |-> all, raised |-> FALSE]
        ELSE [calls |-> SubSeq(all, 1, k - 1), raised |-> k <= Len(lines)]

\* Image sizes, text measurements and surface failures the renderer is tried on
MaxImage == 12
MaxText == 2
MaxBearing == 1
MaxFailCall == 2

ImageSides == {MaxImage - 4, MaxImage}
ImageSizes == ImageSides \X ImageSides

\* draw.textbbox((0, 0), text): (left, top, right, bottom)
TextBoxes ==
    {<<0, t, w, t + h>> : t \in 0..MaxBearing, w \in 1..MaxText, h \in 1..MaxText}

Envs == [textbbox : TextBoxes, measure_raises : BOOLEAN, fail_call : 0..MaxFailCall]

InitRender ==
    /\ pc = "start"
    /\ \E size \in ImageSizes, text \in {NoneText, <<"7">>} :
         \E x1 \in 0..size[1], y1 \in 0..size[2] :
           \E x2 \in (x1 + 2)..size[1], y2 \in (y1 + 2)..size[2] :
             render_args = [bbox |-> <<x1, y1, x2, y2>>, color |-> "#FF6B6B",
                            text |-> text, image_size |-> size]
    /\ render_env = Idle
    /\ render_out = Idle
    /\ IdleColor /\ IdleViewport /\ IdleScale /\ IdleElem /\ IdleFrame

DrawEnhancedBoundingBox ==
    /\ pc = "start"
    /\ pc' = "done"
    /\ \E env \in Envs :
         /\ render_env' = env
         /\ render_out' = draw_enhanced_bounding_box_with_text(
                              render_args.bbox, render_args.color, render_args.text,
                              render_args.image_size, env)
    /\ UNCHANGED <<render_args, colorVars, viewportVars, scaleVars, elemVars, frameVars>>

NextRender == DrawEnhancedBoundingBox

SpecRender == InitRender /\ [][NextRender]_vars

\* the rectangle calls and the line calls made by the renderer
RenderedRectangles ==
    {render_out.calls[i].xy : i \in {j \in 1..Len(render_out.calls) :
                                        render_out.calls[j].op = "rectangle"}}
RenderedLines ==
    {render_out.calls[i].xy : i \in {j \in 1..Len(render_out.calls) :
                                        render_out.calls[j].op = "line"}}

\* C1: label containment: the label container rectangle passed to
\* draw.rectangle satisfies 0 <= bg_x1, bg_x2 <= W, 0 <= bg_y1 and bg_y2 <= H,
\* for every image size, every box that passes the size check and every
\* measured text size.
C1_LabelContainment ==
    pc = "done" =>
        \A r \in RenderedRectangles :
            /\ 0 <= r[1] /\ r[3] <= render_args.image_size[1]
            /\ 0 <= r[2] /\ r[4] <= render_args.image_size[2]

\* the start offsets of the dashes of an edge running from lo to hi
DashStarts(lo, hi) == {x \in lo..(hi - 1) : (x - lo) % (dash_length + gap_length) = 0}

\* C8: the dashed outline covers all four edges: each of top, right, bottom
\* and left receives dash segments at offsets 0, dash+gap, 2*(dash+gap), ...
\* each of length min(dash, remaining edge length), so every edge gets at
\* least one segment and no segment extends past the edge's end.
C8_DashedOutlineCoversFourEdges ==
    (pc = "done" /\ render_env.fail_call = 0) =>
        LET x1 == render_args.bbox[1]  y1 == render_args.bbox[2]
            x2 == render_args.bbox[3]  y2 == render_args.bbox[4]
            top    == {<<x, y1, Min(x + dash_length, x2), y1>> : x \in DashStarts(x1, x2)}
            bottom == {<<x, y2, Min(x + dash_length, x2), y2>> : x \in DashStarts(x1, x2)}
            left   == {<<x1, y, x1, Min(y + dash_length, y2)>> : y \in DashStarts(y1, y2)}
            right  == {<<x2, y, x2, Min(y + dash_length, y2)>> : y \in DashStarts(y1, y2)}
        IN  RenderedLines = top \cup right \cup bottom \cup left

\* C10: inside placement stays inside the element: when the box is at least
\* as wide and as tall as the container (text size + 2*padding), the container
\* is anchored at (x1 + 2, y1 + 2) and the drawn rectangle lies within
\* [x1, x2] x [y1, y2]; otherwise its pre-clamp corner is
\* (x1, max(0, y1 - containerHeight)); and clamping never changes its size.
C10_InsidePlacementStaysInside ==
    pc = "done" =>
        \A r \in RenderedRectangles :
            LET x1 == render_args.bbox[1]  y1 == render_args.bbox[2]
                x2 == render_args.bbox[3]  y2 == render_args.bbox[4]
                tb == render_env.textbbox
                cw == (tb[3] - tb[1]) + 2 * padding(render_args.image_size[1])
                ch == (tb[4] - tb[2]) + 2 * padding(render_args.image_size[1])
                p  == LabelPlacement(render_args.bbox, render_args.image_size, tb)
            IN  /\ r[3] - r[1] = cw /\ r[4] - r[2] = ch
                /\ IF x2 - x1 >= cw /\ y2 - y1 >= ch
                   THEN /\ p.bg_x1 = x1 + 2 /\ p.bg_y1 = y1 + 2
                        /\ x1 <= r[1] /\ r[3] <= x2 /\ y1 <= r[2] /\ r[4] <= y2
                   ELSE p.bg_x1 = x1 /\ p.bg_y1 = Max(0, y1 - ch)

-----------------------------------------------------------------------------
(* process_element_highlight                                               *)

\* str(n) for an integer n, as a sequence of characters
Digits == <<"0","1","2","3","4","5","6","7","8","9">>

RECURSIVE StrOfNat(_)
StrOfNat(n) ==
    IF n < 10 THEN <<Digits[n + 1]>>
    ELSE Append(StrOfNat(n \div 10), Digits[(n % 10) + 1])

str(n) == IF n < 0 THEN <<"-">> \o StrOfNat(-n) ELSE StrOfNat(n)

\* An element of the selector map:
\*   position      PositionNone (absolute_position is None), PositionMissing
\*                 (reading it raises) or [x, y, width, height] in CSS pixels
\*   tag_name      a sequence of characters, or NoTag (no such attribute)
\*   attr_type     attributes.get('type'); None without attributes or type
\*   element_index <<>> for None, <<n>> for the integer n
\*   meaningful    what get_meaningful_text_for_llm() does: raises, or
\*                 returns a text of length len
PositionNone    == [kind |-> "none", x |-> 0, y |-> 0, width |-> 0, height |-> 0]
PositionMissing == [kind |-> "missing", x |-> 0, y |-> 0, width |-> 0, height |-> 0]
Position(x, y, w, h) == [kind |-> "rect", x |-> x, y |-> y, width |-> w, height |-> h]
NoTag == <<None>>
NoIndex == <<>>

\* lines 309-312: CSS pixels to device pixels, ratio = <<numerator, denominator>>
ScaledBox(bounds, ratio) ==
    <<TruncDiv(bounds.x * ratio[1], ratio[2]),
      TruncDiv(bounds.y * ratio[1], ratio[2]),
      TruncDiv((bounds.x + bounds.width) * ratio[1], ratio[2]),
      TruncDiv((bounds.y + bounds.height) * ratio[1], ratio[2])>>

\* lines 315-319: "Ensure coordinates are within image bounds"
ClippedBox(b, image_size) ==
    LET x1 == Max(0, Min(b[1], image_size[1]))
        y1 == Max(0, Min(b[2], image_size[2]))
    IN  <<x1, y1, Max(x1, Min(b[3], image_size[1])), Max(y1, Min(b[4], image_size[2]))>>

\* the size check with "and" for "or"
TooSmallBoth(b) == b[3] - b[1] < 2 /\ b[4] - b[2] < 2

\* line 322: "Skip if bounding box is too small or invalid"
TooSmall(b) == b[3] - b[1] < 2 \/ b[4] - b[2] < 2

\* the label policy testing the index for truth ("if element_index:") instead
\* of "is not None": index 0 gets no label
IndexTextTruthiness(element, filter_highlight_ids) ==
    IF element.element_index = NoIndex \/ element.element_index = <<0>>
    THEN [raised |-> FALSE, text |-> NoneText]
    ELSE IF filter_highlight_ids
    THEN IF element.meaningful.raises
         THEN [raised |-> TRUE, text |-> NoneText]
         ELSE IF element.meaningful.len < 5
         THEN [raised |-> FALSE, text |-> str(element.element_index[1])]
         ELSE [raised |-> FALSE, text |-> NoneText]
    ELSE [raised |-> FALSE, text |-> str(element.element_index[1])]

\* lines 334-346: the label text, and whether computing it raised
IndexText(element, filter_highlight_ids) ==
    IF element.element_index = NoIndex
    THEN [raised |-> FALSE, text |-> NoneText]
    ELSE IF filter_highlight_ids
    THEN IF element.meaningful.raises
         THEN [raised |-> TRUE, text |-> NoneText]
         ELSE IF element.meaningful.len < 5
         THEN [raised |-> FALSE, text |-> str(element.element_index[1])]
         ELSE [raised |-> FALSE, text |-> NoneText]
    ELSE [raised |-> FALSE, text |-> str(element.element_index[1])]

NothingDrawn == [calls |-> <<>>, raised |-> FALSE, rendered |-> <<>>]

\* "except Exception": whatever was raised inside is logged and dropped
CatchAll(out) == [out EXCEPT !.raised = FALSE]

\* the body of the try block
ProcessElementBody(element, ratio, filter_highlight_ids, image_size, env) ==
    IF element.position.kind = "missing"
    THEN [NothingDrawn EXCEPT !.raised = TRUE]
    ELSE IF element.position.kind = "none" THEN NothingDrawn
    ELSE LET box == ClippedBox(ScaledBox(element.position, ratio), image_size)
         IN  IF TooSmall(box) THEN NothingDrawn
             ELSE LET tag   == IF element.tag_name = NoTag THEN KeyDiv ELSE element.tag_name
                      fill  == get_element_color(tag, element.attr_type)
                      label == IndexText(element, filter_highlight_ids)
                      drawn == draw_enhanced_bounding_box_with_text(
                                   box, fill, label.text, image_size, env)
                  IN  IF label.raised
                      THEN [NothingDrawn EXCEPT !.raised = TRUE]
                      ELSE [calls |-> drawn.calls, raised |-> drawn.raised,
                            rendered |-> <<[bbox |-> box, color |-> fill,
                                            text |-> label.text,
                                            image_size |-> image_size]>>]

\* process_element_highlight without its try/except: failures propagate
process_element_highlight_uncaught(element, ratio, filter_highlight_ids, image_size, env) ==
    ProcessElementBody(element, ratio, filter_highlight_ids, image_size, env)

process_element_highlight(element, ratio, filter_highlight_ids, image_size, env) ==
    CatchAll(ProcessElementBody(element, ratio, filter_highlight_ids, image_size, env))

\* Elements, ratios and surfaces the processing is tried on
MaxCss == 3
MaxIndex == 12
MaxMeaningfulLen == 5

Ratios == {<<1, 2>>, <<1, 1>>, <<2, 1>>}
Positions ==
    {PositionNone, PositionMissing}
    \cup {Position(x, y, w, h) : x \in -1..MaxCss, y \in -1..MaxCss,
                                 w \in 0..MaxCss, h \in 0..MaxCss}
Meaningfuls ==
    {[raises |-> TRUE, len |-> 0]}
    \cup {[raises |-> FALSE, len |-> n] : n \in 0..MaxMeaningfulLen}
IndexValues == {NoIndex, <<0>>, <<MaxIndex>>}
TagAndType == {<<NoTag, None>>, <<<<"I","N","P","U","T">>, "submit">>}

Elements ==
    {[position |-> p, tag_name |-> tt[1], attr_type |-> tt[2],
      element_index |-> i, meaningful |-> m] :
        p \in Positions, tt \in TagAndType, i \in IndexValues, m \in Meaningfuls}

ElemImageSize == <<MaxImage - 4, MaxImage>>
ElemEnvs == {e \in Envs : e.textbbox = <<0, MaxBearing, MaxText, MaxBearing + MaxText>>}

InitElem ==
    /\ pc = "start"
    /\ elem_args \in [element : Elements, device_pixel_ratio : Ratios,
                      filter_highlight_ids : BOOLEAN, image_size : {ElemImageSize}]
    /\ elem_env = Idle
    /\ elem_out = Idle
    /\ IdleColor /\ IdleViewport /\ IdleScale /\ IdleRender /\ IdleFrame

ProcessElementHighlight ==
    /\ pc = "start"
    /\ pc' = "done"
    /\ \E env \in ElemEnvs :
         /\ elem_env' = env
         /\ elem_out' = process_element_highlight(
                            elem_args.element, elem_args.device_pixel_ratio,
                            elem_args.filter_highlight_ids, elem_args.image_size, env)
    /\ UNCHANGED <<elem_args, colorVars, viewportVars, scaleVars, renderVars, frameVars>>

NextElem == ProcessElementHighlight

SpecElem == InitElem /\ [][NextElem]_vars

\* the value a sequence of decimal digits denotes
DigitValue(c) == (CHOOSE i \in 1..10 : Digits[i] = c) - 1

RECURSIVE DecimalValue(_)
DecimalValue(t) ==
    IF Len(t) = 0 THEN 0
    ELSE 10 * DecimalValue(SubSeq(t, 1, Len(t) - 1)) + DigitValue(t[Len(t)])

\* t is the decimal string of the natural number n: digits only, no leading zero
IsDecimalOf(t, n) ==
    /\ Len(t) >= 1
    /\ \A i \in 1..Len(t) : \E d \in 1..10 : Digits[d] = t[i]
    /\ (Len(t) > 1 => t[1] # "0")
    /\ DecimalValue(t) = n

ElemOps == {elem_out.calls[i].op : i \in 1..Len(elem_out.calls)}

\* C4: label policy: for every element that is drawn, a label is passed to
\* the renderer iff the element has an index and (filter_highlight_ids is false
\* or its meaningful text is shorter than 5); a label passed is the decimal
\* string of the index (index 0 included); an element without an index gets
\* its outline and no label container.
C4_LabelPolicy ==
    pc = "done" =>
        \A i \in 1..Len(elem_out.rendered) :
            LET r == elem_out.rendered[i]
                e == elem_args.element
                shown == /\ e.element_index # NoIndex
                         /\ \/ ~elem_args.filter_highlight_ids
                            \/ e.meaningful.len < 5
            IN  /\ (r.text # NoneText) <=> shown
                /\ r.text # NoneText => IsDecimalOf(r.text, e.element_index[1])
                /\ e.element_index = NoIndex =>
                       /\ "rectangle" \notin ElemOps /\ "text" \notin ElemOps
                       /\ elem_env.fail_call = 0 => "line" \in ElemOps

C4_Witness ==
    /\ pc = "done"
    /\ elem_args.filter_highlight_ids
    /\ elem_args.element.meaningful.len = 4
    /\ Len(elem_out.rendered) = 1
    /\ elem_out.rendered[1].text = <<"1", "2">>
    /\ "rectangle" \in ElemOps

\* C5: small-box skip: an element whose box, scaled by device_pixel_ratio and
\* clipped to the image, is narrower or lower than 2 pixels causes no drawing
\* call and no exception; every box that reaches the renderer satisfies
\* 0 <= x1 <= x2 <= image width and 0 <= y1 <= y2 <= image height.
C5_SmallBoxSkip ==
    pc = "done" =>
        LET e == elem_args.element
            size == elem_args.image_size
            box == ClippedBox(ScaledBox(e.position, elem_args.device_pixel_ratio), size)
        IN  /\ ~elem_out.raised
            /\ (e.position.kind = "rect" /\ (box[3] - box[1] < 2 \/ box[4] - box[2] < 2))
                   => (elem_out.calls = <<>> /\ elem_out.rendered = <<>>)
            /\ \A i \in 1..Len(elem_out.rendered) :
                   LET b == elem_out.rendered[i].bbox
                   IN  /\ 0 <= b[1] /\ b[1] <= b[3] /\ b[3] <= size[1]
                       /\ 0 <= b[2] /\ b[2] <= b[4] /\ b[4] <= size[2]

\* a box two pixels wide before clipping and one pixel wide after it
C5_Witness ==
    /\ pc = "done"
    /\ elem_args.element.position.kind = "rect"
    /\ elem_args.element.element_index # NoIndex
    /\ LET raw == ScaledBox(elem_args.element.position, elem_args.device_pixel_ratio)
           box == ClippedBox(raw, elem_args.image_size)
       IN  /\ raw[3] - raw[1] >= 2 /\ raw[4] - raw[2] >= 2
           /\ box[3] - box[1] < 2 /\ box[4] - box[2] >= 2
    /\ elem_out.calls = <<>>

-----------------------------------------------------------------------------
(* create_highlighted_screenshot                                           *)

\* A base64 string: `decodable` tells whether b64decode and Image.open
\* succeed on it; `image` is the picture it encodes: its size and, for a
\* picture this module produced, the calls drawn on it.
FrameImageSize == <<MaxImage - 4, MaxImage>>

InputScreenshot(name, decodable) ==
    [name |-> name, decodable |-> decodable,
     image |-> [size |-> FrameImageSize, calls |-> <<>>]]

\* lines 400-408: image.save(format='PNG') and b64encode of the drawn image
EncodePng(image_size, calls) ==
    [name |-> "highlighted", decodable |-> TRUE,
     image |-> [size |-> image_size, calls |-> calls]]

\* a handler that returns what has been drawn so far instead of the input
ReturnPartialOnError(input, image_size, calls) == EncodePng(image_size, calls)

\* lines 410-413: "Return original screenshot on error"
ReturnOnError(input, image_size, calls) == input

MaxElements == 3

\* the elements a selector map is built from: one that is drawn with a label,
\* one without geometry, one whose geometry cannot be read, one whose
\* meaningful text raises, one too small to draw
FrameElements ==
    LET base == [position |-> Position(0, 0, MaxCss, MaxCss), tag_name |-> KeyButton,
                 attr_type |-> None, element_index |-> <<MaxIndex>>,
                 meaningful |-> [raises |-> FALSE, len |-> 0]]
    IN  { base,
          [base EXCEPT !.position = PositionNone],
          [base EXCEPT !.position = PositionMissing],
          [base EXCEPT !.meaningful = [raises |-> TRUE, len |-> 0]],
          [base EXCEPT !.position = Position(0, 0, 0, MaxCss)] }

\* selector maps: sequences of (id, element) with distinct ids, inserted in
\* ascending or in descending order of id
IdOrders(n) == {[i \in 1..n |-> i], [i \in 1..n |-> n + 1 - i]}

SelectorMaps ==
    UNION { {[i \in 1..n |-> <<ids[i], es[i]>>] :
                ids \in IdOrders(n), es \in [1..n -> FrameElements]} : n \in 0..MaxElements }

MapIds(m) == [i \in 1..Len(m) |-> m[i][1]]

InitFrame ==
    /\ pc = "start"
    /\ screenshot_b64 \in {InputScreenshot("screenshot", TRUE),
                           InputScreenshot("garbage", FALSE)}
    /\ selector_map \in SelectorMaps
    /\ frame_params \in [device_pixel_ratio : {<<2, 1>>}, filter_highlight_ids : BOOLEAN]
    /\ cursor = 0
    /\ surface = <<>>
    /\ processed = <<>>
    /\ frame_error = "none"
    /\ result = None
    /\ IdleColor /\ IdleViewport /\ IdleScale /\ IdleRender /\ IdleElem

\* lines 377-393: decode the screenshot and open the drawing context
Decode ==
    /\ pc = "start"
    /\ IF screenshot_b64.decodable
       THEN /\ pc' = "loop"
            /\ cursor' = 1
            /\ UNCHANGED <<frame_error, result>>
       ELSE /\ pc' = "done"
            /\ frame_error' = "decode"
            /\ result' = ReturnOnError(screenshot_b64, FrameImageSize, surface)
            /\ UNCHANGED cursor
    /\ UNCHANGED <<screenshot_b64, selector_map, frame_params, surface, processed>>
    /\ UNCHANGED <<colorVars, viewportVars, scaleVars, renderVars, elemVars>>

\* lines 397-398: one iteration of the for loop
ProcessNext ==
    /\ pc = "loop"
    /\ cursor <= Len(selector_map)
    /\ \E env \in ElemEnvs :
         LET out == process_element_highlight(
                        selector_map[cursor][2], frame_params.device_pixel_ratio,
                        frame_params.filter_highlight_ids,
                        screenshot_b64.image.size, env)
         IN  /\ surface' = surface \o out.calls
             /\ processed' = Append(processed, selector_map[cursor][1])
             /\ IF out.raised
                THEN /\ pc' = "done"
                     /\ frame_error' = "element"
                     /\ result' = ReturnOnError(screenshot_b64, screenshot_b64.image.size,
                                                surface')
                     /\ UNCHANGED cursor
                ELSE /\ cursor' = cursor + 1
                     /\ UNCHANGED <<pc, frame_error, result>>
    /\ UNCHANGED <<screenshot_b64, selector_map, frame_params>>
    /\ UNCHANGED <<colorVars, viewportVars, scaleVars, renderVars, elemVars>>

\* lines 400-408: re-encode and return
Encode ==
    /\ pc = "loop"
    /\ cursor > Len(selector_map)
    /\ pc' = "done"
    /\ result' = EncodePng(screenshot_b64.image.size, surface)
    /\ UNCHANGED <<screenshot_b64, selector_map, frame_params, cursor, surface,
                   processed, frame_error>>
    /\ UNCHANGED <<colorVars, viewportVars, scaleVars, renderVars, elemVars>>

\* lines 400-413: image.save raises
EncodeFails ==
    /\ pc = "loop"
    /\ cursor > Len(selector_map)
    /\ pc' = "done"
    /\ frame_error' = "encode"
    /\ result' = ReturnOnError(screenshot_b64, screenshot_b64.image.size, surface)
    /\ UNCHANGED <<screenshot_b64, selector_map, frame_params, cursor, surface, processed>>
    /\ UNCHANGED <<colorVars, viewportVars, scaleVars, renderVars, elemVars>>

NextFrame == Decode \/ ProcessNext \/ Encode \/ EncodeFails

SpecFrame == InitFrame /\ [][NextFrame]_vars

\* C2: create_highlighted_screenshot never raises: when decoding, drawing or
\* re-encoding fails at the whole-frame level the returned value is exactly the
\* input string; otherwise it is a fully re-encoded image, so a partially
\* drawn surface is never returned.
C2_OriginalOrComplete ==
    pc = "done" =>
        /\ ~screenshot_b64.decodable => result = screenshot_b64
        /\ frame_error # "none" => result = screenshot_b64
        /\ frame_error = "none" =>
               /\ result.name = "highlighted"
               /\ result.image.size = screenshot_b64.image.size
               /\ result.image.calls = surface
               /\ Len(processed) = Len(selector_map)

\* the surface was drawn on, re-encoding failed, the input came back
C2_Witness ==
    /\ pc = "done"
    /\ frame_error = "encode"
    /\ Len(surface) > 0
    /\ result = screenshot_b64

IsPrefix(s, t) == Len(s) <= Len(t) /\ s = SubSeq(t, 1, Len(s))

\* C6: per-element failure isolation and order: the elements are processed one
\* at a time in the map's iteration order, a failure inside one element's
\* processing is caught there, every later element is still processed and the
\* call still returns a re-encoded image, not the input.
C6_FailureIsolationAndOrder ==
    /\ pc \in {"loop", "done"} => IsPrefix(processed, MapIds(selector_map))
    /\ pc = "loop" => Len(processed) = cursor - 1
    /\ (pc = "done" /\ screenshot_b64.decodable /\ frame_error # "encode") =>
           /\ processed = MapIds(selector_map)
           /\ result.name = "highlighted"

\* three elements: the first one's geometry cannot be read, the second one's
\* meaningful text raises, the third is drawn
C6_Witness ==
    /\ pc = "done"
    /\ Len(selector_map) = 3
    /\ frame_params.filter_highlight_ids
    /\ selector_map[1][2].position.kind = "missing"
    /\ selector_map[2][2].position.kind = "rect" /\ selector_map[2][2].meaningful.raises
    /\ selector_map[3][2].position.kind = "rect" /\ ~selector_map[3][2].meaningful.raises
    /\ processed = MapIds(selector_map)
    /\ Len(surface) > 0
    /\ result.name = "highlighted"

====
